---- MODULE Spec2Model ----
(***************************************************************************)
(* Image attachment handling of the chat client: the data-URL helpers, the *)
(* two resize routines (canvas and image-manipulation service), the two    *)
(* attachment processors and the asset loops of the two picker hooks.      *)
(*                                                                         *)
(* Strings are modelled by their structure.  A string is a record          *)
(*   kind  "data"  data:<mime>;base64,<seg1>,<seg2>,...                     *)
(*         "bare"  data:,            (what a zero-sized canvas encodes to) *)
(*         "file"  file:///...<name>.<mime>   (mime holds the extension)   *)
(*         "raw"   <seg1>,<seg2>,... (no prefix)                           *)
(*   mime  the text between "data:" and ";" (or the file extension)        *)
(*   segs  the lengths of the comma-separated pieces that follow           *)
(*   w, h  the pixel size of the image the string denotes (0: none, the    *)
(*         decoder fails on it)                                            *)
(***************************************************************************)
EXTENDS Integers, Sequences, FiniteSets, TLC

\* ------------------------------------------------------------------ bounds
\* Sides 1..MaxSide are enumerated exhaustively, next to the sampled sizes.
MaxSide == 4
\* Resize bounds 1..MaxBound are enumerated next to 200 and MAX_DIMENSION.
MaxBound == 3
\* The longest selection a picker hands to processAssets.
MaxAssets == 2
\* The acquisition calls (pickFromGallery, takePhoto) one hook instance sees.
MaxCalls == 2
\* The checkClipboardForImage calls one widget instance sees.
MaxChecks == 3
\* The longest text the text input holds, and the largest caret position.
MaxText == 1

\* --------------------------------------------------------- IMAGE_CONSTRAINTS
MAX_FILE_SIZE == 1 * 1024 * 1024
MAX_DIMENSION == 1024
SUPPORTED_TYPES == {"image/png", "image/jpeg", "image/gif", "image/webp"}

\* A field that is undefined in the source.
Absent == -1

\* ------------------------------------------------------------------ strings
Str(kind, mime, segs, w, h) ==
    [kind |-> kind, mime |-> mime, segs |-> segs, w |-> w, h |-> h]

DataUrl(mime, len, w, h) == Str("data", mime, <<len>>, w, h)

\* `data:${mime};base64,${payload}` for a payload string (template literal):
\* the payload's own commas stay commas of the result.
Prefixed(mime, payload) ==
    Str("data", mime, payload.segs, payload.w, payload.h)

RECURSIVE SumSegs(_)
SumSegs(segs) ==
    IF segs = <<>> THEN 0 ELSE Head(segs) + SumSegs(Tail(segs))

\* String.prototype.length of the strings whose length the code reads.
StrLen(s) ==
    CASE s.kind = "raw"  -> SumSegs(s.segs) + (Len(s.segs) - 1)
      [] s.kind = "file" -> SumSegs(s.segs)
      [] s.kind = "bare" -> 6
      [] OTHER -> 5 + Len(s.mime) + 8 + SumSegs(s.segs) + (Len(s.segs) - 1)

\* dataUrl.split(','): the pieces, each a string of its own.
SplitComma(s) ==
    CASE s.kind = "data" ->
           <<Str("head", s.mime, <<0>>, 0, 0)>>
             \o [i \in 1..Len(s.segs) |-> Str("raw", "", <<s.segs[i]>>, s.w, s.h)]
      [] s.kind = "bare" ->
           <<Str("head", "", <<0>>, 0, 0), Str("raw", "", <<0>>, 0, 0)>>
      [] s.kind = "raw" ->
           [i \in 1..Len(s.segs) |-> Str("raw", "", <<s.segs[i]>>, s.w, s.h)]
      [] OTHER -> <<s>>

extractBase64Data(dataUrl) ==
    LET parts == SplitComma(dataUrl)
    IN  IF Len(parts) > 1 THEN parts[2] ELSE dataUrl

\* dataUrl.match(/^data:([^;]+);/)
extractMimeTypeNoDefault(dataUrl) == dataUrl.mime
extractMimeType(dataUrl) ==
    IF dataUrl.kind = "data" /\ dataUrl.mime # ""
        THEN dataUrl.mime
        ELSE "image/png"

isSupportedIgnoringCase(mimeType) ==
    mimeType \in SUPPORTED_TYPES \cup {"image/PNG", "IMAGE/JPEG"}
isSupportedImageType(mimeType) == mimeType \in SUPPORTED_TYPES

isValidImageSizeStrict(sizeInBytes) == sizeInBytes < MAX_FILE_SIZE
isValidImageSizeLoose(sizeInBytes) == sizeInBytes <= MAX_FILE_SIZE + 1
isValidImageSize(sizeInBytes) == sizeInBytes <= MAX_FILE_SIZE

\* Math.round(a / b) and Math.ceil(a / b) for a >= 0, b > 0.
Round(a, b) == (2 * a + b) \div (2 * b)
Ceil(a, b) == (a + b - 1) \div b

\* Math.ceil((base64Data.length * 3) / 4)
EstimateSize(base64Data) == Ceil(StrLen(base64Data) * 3, 4)

\* uri.toLowerCase() on a file extension.
LowerExt(ext) ==
    CASE ext = "PNG" -> "png"
      [] ext = "GIF" -> "gif"
      [] OTHER -> ext

\* imageUtils.native.ts
getMimeTypeFromUri(uri) ==
    IF uri.kind \in {"data", "bare"}
        THEN extractMimeType(uri)
        ELSE IF uri.kind = "file" /\ LowerExt(uri.mime) = "png" THEN "image/png"
        ELSE IF uri.kind = "file" /\ LowerExt(uri.mime) = "gif" THEN "image/gif"
        ELSE IF uri.kind = "file" /\ LowerExt(uri.mime) = "webp" THEN "image/webp"
        ELSE "image/jpeg"

\* The picker hook's own helper: no data: branch.
hookGetMimeTypeFromUri(uri) ==
    IF uri.kind = "file" /\ LowerExt(uri.mime) = "png" THEN "image/png"
    ELSE IF uri.kind = "file" /\ LowerExt(uri.mime) = "gif" THEN "image/gif"
    ELSE IF uri.kind = "file" /\ LowerExt(uri.mime) = "webp" THEN "image/webp"
    ELSE "image/jpeg"

\* ------------------------------------------------------------ result values
NoStr == Str("none", "", <<>>, 0, 0)

\* What a promise of a resize routine settles to.
Resolved(base64, width, height, mimeType) ==
    [tag |-> "resolved", base64 |-> base64, width |-> width, height |-> height,
     mimeType |-> mimeType, err |-> [kind |-> "none"]]
Rejected(err) ==
    [tag |-> "rejected", base64 |-> NoStr, width |-> 0, height |-> 0,
     mimeType |-> "", err |-> err]

\* new Error(message) and its .message, by the message's parts.
LoadError == [kind |-> "Failed to load image"]
ContextError == [kind |-> "Failed to get canvas context"]
ServiceError == [kind |-> "manipulate failed"]
ReadError == [kind |-> "read failed"]
UnsupportedMsg(mimeType) == [kind |-> "Unsupported image type", mime |-> mimeType]
\* `${kind}: ${measured}${unit} (max ${limit}${limitUnit})`
TooLargeMsg(kind, measured, unit, limit, limitUnit) ==
    [kind |-> kind, measured |-> measured, unit |-> unit,
     limit |-> limit, limitUnit |-> limitUnit]

\* AttachedImage | { error }, and a promise that rejected instead.
Image(base64, mimeType, width, height, fileName, fileSize) ==
    [tag |-> "image", base64 |-> base64, mimeType |-> mimeType, width |-> width,
     height |-> height, fileName |-> fileName, fileSize |-> fileSize]
ErrorResult(msg) == [tag |-> "error", error |-> msg]
Threw(err) == [tag |-> "threw", err |-> err]
\* Promise<string> of the thumbnail functions, resolved.
StringResult(value) == [tag |-> "string", value |-> value]
NoOutcome == [tag |-> "none"]

\* ----------------------------------------------------------- resize routines
WithinBounds(width, height, maxDimension) ==
    width <= maxDimension /\ height <= maxDimension

\* "Calculate new dimensions maintaining aspect ratio": <<width, height>>.
TargetFloor(width, height, maxDimension) ==
    IF width > height
        THEN <<maxDimension, (height * maxDimension) \div width>>
        ELSE <<(width * maxDimension) \div height, maxDimension>>
TargetSize(width, height, maxDimension) ==
    IF width > height
        THEN <<maxDimension, Round(height * maxDimension, width)>>
        ELSE <<Round(width * maxDimension, height), maxDimension>>

\* canvas.toDataURL('image/jpeg', 0.8): a canvas with a zero side encodes to
\* "data:,"; encLen is the length of the payload the encoder happens to produce.
CanvasToDataURL(width, height, encLen) ==
    IF width = 0 \/ height = 0
        THEN Str("bare", "", <<0>>, 0, 0)
        ELSE DataUrl("image/jpeg", encLen, width, height)

\* img.onload of resizeImageWeb: the value the promise settles to.
resizeImageWebOnLoad(base64, maxDimension, ctxOk, encLen) ==
    IF WithinBounds(base64.w, base64.h, maxDimension)
        THEN Resolved(base64, base64.w, base64.h, "")
        ELSE LET t == TargetSize(base64.w, base64.h, maxDimension)
             IN  IF ~ctxOk
                     THEN Rejected(ContextError)
                     ELSE Resolved(CanvasToDataURL(t[1], t[2], encLen), t[1], t[2], "")

\* Whether onload drew and encoded (the canvas path) for this input.
WebEncodes(base64, maxDimension, ctxOk) ==
    ~WithinBounds(base64.w, base64.h, maxDimension) /\ ctxOk

\* ImageManipulator.SaveFormat chosen by resizeImageNative.
SaveFormat(uri) ==
    IF getMimeTypeFromUri(uri) = "image/png" THEN "png" ELSE "jpeg"
OutputMimeType(format) ==
    IF format = "png" THEN "image/png" ELSE "image/jpeg"

\* The actions array of the second manipulateAsync call: <<>> or one resize.
ResizeActions(origWidth, origHeight, maxDimension) ==
    IF WithinBounds(origWidth, origHeight, maxDimension)
        THEN <<>>
        ELSE <<TargetSize(origWidth, origHeight, maxDimension)>>

\* The manipulation service: it decodes file: and data: URIs of an image, and
\* returns the image at the requested size (the original size without a
\* resize action); it has no result for a requested side below one pixel.
Decodable(uri) == uri.kind \in {"data", "file"} /\ uri.w >= 1 /\ uri.h >= 1
ServiceAccepts(uri, actions) ==
    /\ Decodable(uri)
    /\ actions # <<>> => (actions[1][1] >= 1 /\ actions[1][2] >= 1)
ServiceSize(uri, actions) ==
    IF actions = <<>> THEN <<uri.w, uri.h>> ELSE actions[1]

\* The value resizeImageNative returns once the second manipulateAsync call
\* resolved with a payload of encLen characters.
resizeImageNativeReturn(uri, maxDimension, encLen) ==
    LET format == SaveFormat(uri)
        actions == ResizeActions(uri.w, uri.h, maxDimension)
        size == ServiceSize(uri, actions)
        payload == Str("raw", "", <<encLen>>, size[1], size[2])
    IN  IF actions = <<>>
            THEN Resolved(Prefixed(OutputMimeType(format), payload),
                          uri.w, uri.h, OutputMimeType(format))
            ELSE Resolved(Prefixed(OutputMimeType(format), payload),
                          size[1], size[2], OutputMimeType(format))

\* --------------------------------------------------------------- processors
\* catch (err) of processImageForAttachment: err is always an Error here.
Rethrow(err) == Threw(err)
ProcessCatch(err) == ErrorResult(err)
\* catch (err) of processImageForAttachmentNative.
ProcessCatchNative(err) == ErrorResult(err)

\* processImageForAttachment, Platform.OS === 'web', after await resizeImageWeb.
processWebAfterResize(resized, fileName) ==
    IF resized.tag = "rejected"
        THEN ProcessCatch(resized.err)
        ELSE LET actualBase64Data == extractBase64Data(resized.base64)
                 actualSize == EstimateSize(actualBase64Data)
             IN  IF ~isValidImageSize(actualSize)
                     THEN ErrorResult(TooLargeMsg("Image too large after compression",
                              Round(actualSize, 1024), "KB",
                              Round(MAX_FILE_SIZE, 1024), "KB"))
                     ELSE Image(resized.base64, "image/jpeg", resized.width,
                                resized.height, fileName, actualSize)

\* processImageForAttachment on the other platforms: no resize, size first.
processWebNoResize(base64, mimeType, fileName) ==
    LET base64Data == extractBase64Data(base64)
        estimatedSize == EstimateSize(base64Data)
    IN  IF ~isValidImageSize(estimatedSize)
            THEN ErrorResult(TooLargeMsg("Image too large",
                     Round(estimatedSize, 1024), "KB",
                     Round(MAX_FILE_SIZE, 1024), "KB"))
            ELSE Image(base64, mimeType, Absent, Absent, fileName, estimatedSize)

\* processImageForAttachmentNative after await resizeImageNative.
processNativeAfterResize(resized, fileName) ==
    IF resized.tag = "rejected"
        THEN ProcessCatchNative(resized.err)
        ELSE IF ~isSupportedImageType(resized.mimeType)
            THEN ErrorResult(UnsupportedMsg(resized.mimeType))
            ELSE LET base64Data == extractBase64Data(resized.base64)
                     estimatedSize == EstimateSize(base64Data)
                 IN  IF ~isValidImageSize(estimatedSize)
                         THEN ErrorResult(TooLargeMsg("Image too large",
                                  Round(estimatedSize, 1024 * 1024), "MB", 5, "MB"))
                         ELSE Image(resized.base64, resized.mimeType, resized.width,
                                    resized.height, fileName, estimatedSize)

\* --------------------------------------------------------------- thumbnails
\* createThumbnail after await resizeImageWeb: no try around the await.
createThumbnailAfterResize(base64, result) ==
    IF result.tag = "rejected"
        THEN Threw(result.err)
        ELSE StringResult(result.base64)

\* createThumbnailNative after await resizeImageNative, and its catch.
createThumbnailNativeAfterResize(uri, result) ==
    IF result.tag = "rejected"
        THEN StringResult(uri)
        ELSE StringResult(result.base64)

\* -------------------------------------------------------------------- inputs
\* The longest payload whose estimated size is still within MAX_FILE_SIZE.
LimitLen == (MAX_FILE_SIZE * 4) \div 3
\* Payload lengths an encoder (or a file read) may produce for an image of
\* width x height: at most four bytes a pixel and a header, base64-expanded.
EncLens(width, height) ==
    {n \in {4, LimitLen, LimitLen + 1} : n <= 1024 + (16 * width * height) \div 3}

SampleDims ==
    {<<2000, 1000>>, <<1000, 2000>>, <<500, 400>>, <<1024, 1024>>,
     <<1025, 1000>>, <<1024, 1025>>, <<1500, 1500>>, <<4000, 1>>}
FileDims == {<<2000, 1000>>, <<500, 400>>, <<4000, 1>>}
Dims == ((1..MaxSide) \X (1..MaxSide)) \cup SampleDims
Bounds == (1..MaxBound) \cup {200, MAX_DIMENSION}

DataMimes == {"image/png", "image/jpeg", "image/gif", "image/webp", "image/bmp"}
\* Types that differ from a supported one in letter case only.
CaseMimes == {"image/PNG", "IMAGE/JPEG"}
FileExts == {"png", "PNG", "jpg", "gif", "heic"}

\* The strings a caller may hand to a processor or a resize routine.
Subjects ==
    {Str("data", m, <<4>>, d[1], d[2]) : m \in {"image/png", "image/jpeg"}, d \in Dims}
    \cup {Str("data", m, <<4>>, d[1], d[2]) : m \in DataMimes, d \in SampleDims}
    \cup {Str("file", e, <<40>>, d[1], d[2]) : e \in FileExts, d \in FileDims}
    \cup {Str("data", m, <<n>>, 1000, 2000) : m \in {"image/png", "image/gif"},
                                        n \in {LimitLen, LimitLen + 1}}
    \cup {Str("data", m, <<4>>, 500, 400) : m \in CaseMimes}
    \cup {Str("data", "image/png", <<4>>, 0, 0),
          Str("data", "image/png", <<4, 8>>, 0, 0),
          Str("data", "", <<4>>, 3, 2),
          Str("file", "jpg", <<40>>, 0, 0),
          Str("raw", "", <<4>>, 0, 0),
          Str("raw", "", <<4, LimitLen + 1>>, 0, 0)}
FileNames == {"", "photo.jpg"}

\* --------------------------------------------------------------------- state
VARIABLES
    platform,   \* Platform.OS
    subject,    \* the string the caller currently works with
    call,       \* the exported function in progress
    io,         \* the platform call the function awaits
    effects,    \* decode / encode / manipulate calls made for the current image
    settled,    \* what the resize routine of the current image settled to
    outcome,    \* what the last finished call settled to
    last,       \* per resize routine: its last result for the subject
    selected,   \* picker hook: the assets handed to processAssets
    pending,    \* picker hook: the assets not yet processed
    results,    \* picker hook: the images accumulated so far
    reported,   \* picker hook: the onError calls made so far
    hook,       \* which of the two hook files the instance comes from
    acq,        \* picker hook: its acquisition calls, each with its position
    isLoading,  \* picker hook: the loading flag
    onImagePaste,            \* text input: whether the prop is given
    isCheckingClipboard,     \* text input: the guard ref
    lastClipboardImageHash,  \* text input: the fingerprint ref
    checks,     \* text input: its checkClipboardForImage calls
    selectionRef,       \* text input: the tracked selection
    inputRef,           \* text input: whether the TextInput ref is attached
    value,              \* text input: the value prop
    onSelectionChange,  \* text input: whether the prop is given
    onStateChange,      \* text input: whether the prop is given
    handled,            \* text input: the last event handled and its callbacks
    lastSelection,      \* text input: the last onSelectionChange argument
    content     \* the last toClaudeImageContent call: its record and result

inputVars == <<selectionRef, inputRef, value, onSelectionChange, onStateChange,
               handled, lastSelection>>
hookVars == <<hook, acq, isLoading>>
widgetVars == <<onImagePaste, isCheckingClipboard, lastClipboardImageHash,
                checks, inputVars, content>>
uiVars == <<hookVars, widgetVars>>
vars == <<platform, subject, call, io, effects, settled, outcome, last,
          selected, pending, results, reported, uiVars>>
pickerVars == <<selected, pending, results, reported>>

NoCall ==
    [fn |-> "none", arg |-> NoStr, fileName |-> "", maxDimension |-> 0,
     running |-> FALSE]
Call(fn, arg, fileName, maxDimension) ==
    [fn |-> fn, arg |-> arg, fileName |-> fileName, maxDimension |-> maxDimension,
     running |-> TRUE]
Returned(c) == [c EXCEPT !.running = FALSE]
Idle == ~call.running
NoIo == [pc |-> "idle", uri |-> NoStr, maxDimension |-> 0]
Io(pc, uri, maxDimension) == [pc |-> pc, uri |-> uri, maxDimension |-> maxDimension]
Effect(op, actions, base64) == [op |-> op, actions |-> actions, base64 |-> base64]
NoLast == [web |-> NoOutcome, native |-> NoOutcome]

\* What `last` keeps of a resolved resize.
Summary(resized, maxDimension, encoded) ==
    [tag |-> "resized", maxDimension |-> maxDimension, width |-> resized.width,
     height |-> resized.height, mime |-> extractMimeType(resized.base64),
     encoded |-> encoded]

\* --- the picker hook's acquisition calls
Calls == 1..MaxCalls
NullResult == [tag |-> "null"]
NoLaunch == [canceled |-> FALSE, assets |-> <<>>, settled |-> FALSE]
LaunchResult(canceled, assets) ==
    [canceled |-> canceled, assets |-> assets, settled |-> TRUE]
\* One pickFromGallery / takePhoto call: where it stands, and what it did.
NoAcq ==
    [fn |-> "none", pc |-> "idle",
     status |-> "none",        \* the status the platform last reported to it
     canAskAgain |-> TRUE,     \* and the canAskAgain that came with it
     queries |-> 0,            \* get...PermissionsAsync calls made
     alerts |-> 0,             \* open-settings prompts shown
     requests |-> 0,           \* request...PermissionsAsync calls made
     launches |-> 0,           \* launcher calls made
     raised |-> FALSE,         \* setIsLoading(true) was called
     launched |-> NoLaunch,    \* what the launcher resolved to
     processing |-> FALSE,     \* processAssets was called
     pending |-> <<>>, results |-> <<>>,
     reported |-> <<>>,        \* the onError calls it made
     picked |-> <<>>,          \* the onImagesPicked calls it made
     failed |-> [kind |-> "none"],   \* the error its catch received
     ret |-> NoOutcome,        \* what the call's promise settled to
     flagAtEnd |-> FALSE]      \* the loading flag as the call left it
HookUnused ==
    /\ hook = "none"
    /\ acq = [c \in Calls |-> NoAcq]
    /\ isLoading = FALSE

\* --- the text input's clipboard checks
Checks == 1..MaxChecks
NoHash == <<>>
\* One checkClipboardForImage call: where it stands, and what it did.
NoCheck ==
    [pc |-> "idle",
     blocked |-> FALSE,      \* the guard was set when the call was made
     probed |-> FALSE,       \* Clipboard.hasImageAsync was called
     fetched |-> FALSE,      \* Clipboard.getImageAsync was called
     text |-> <<>>,          \* clipboardImage.data, in blocks of 100 characters
     compared |-> FALSE,     \* the fingerprint comparison was reached
     before |-> NoHash,      \* lastClipboardImageHash.current at the comparison
     data |-> NoStr,         \* base64Data
     handed |-> FALSE,       \* processImageForAttachmentNative was called
     processed |-> NoOutcome,
     delivered |-> 0,        \* onImagePaste calls made
     threw |-> FALSE]        \* onImagePaste threw into the callback's catch
\* selectionRef = useRef({ start: 0, end: 0 })
Selection(start, end) == [start |-> start, end |-> end]
NoSelection == Selection(Absent, Absent)
NoEvent == [op |-> "none", text |-> <<>>, selection |-> NoSelection,
            before |-> NoSelection, attached |-> FALSE, notified |-> <<>>]
NoContent == [tag |-> "none"]
InputUnused ==
    /\ selectionRef = Selection(0, 0)
    /\ inputRef = FALSE
    /\ value = <<>>
    /\ onSelectionChange = FALSE
    /\ onStateChange = FALSE
    /\ handled = NoEvent
    /\ lastSelection = NoSelection
ContentUnused == content = NoContent
WidgetUnused ==
    /\ onImagePaste = FALSE
    /\ isCheckingClipboard = FALSE
    /\ lastClipboardImageHash = NoHash
    /\ checks = [k \in Checks |-> NoCheck]
    /\ InputUnused
    /\ ContentUnused

\* A caller holds one string and calls the exported functions on it.
Init ==
    /\ platform \in {"web", "ios"}
    /\ subject \in Subjects
    /\ call = NoCall
    /\ io = NoIo
    /\ effects = <<>>
    /\ settled = NoOutcome
    /\ outcome = NoOutcome
    /\ last = NoLast
    /\ selected = <<>>
    /\ pending = <<>>
    /\ results = <<>>
    /\ reported = <<>>
    /\ HookUnused
    /\ WidgetUnused

\* resizeImageWeb up to `img.src = base64`.
StartResizeWeb(base64, maxDimension) ==
    /\ io' = Io("load", base64, maxDimension)
    /\ effects' = <<Effect("decode", <<>>, FALSE)>>
    /\ settled' = NoOutcome

\* resizeImageNative up to the first `await ImageManipulator.manipulateAsync`.
StartResizeNative(uri, maxDimension) ==
    /\ io' = Io("info", uri, maxDimension)
    /\ effects' = <<Effect("manipulate", <<>>, FALSE)>>
    /\ settled' = NoOutcome

\* ------------------------------------------------------------- entry points
ResizeImageWeb ==
    /\ Idle /\ platform = "web"
    /\ \E b \in Bounds :
        /\ call' = Call("resizeImageWeb", subject, "", b)
        /\ StartResizeWeb(subject, b)
    /\ outcome' = NoOutcome
    /\ UNCHANGED <<uiVars, platform, subject, last, pickerVars>>

ResizeImageNative ==
    /\ Idle
    /\ \E b \in Bounds :
        /\ call' = Call("resizeImageNative", subject, "", b)
        /\ StartResizeNative(subject, b)
    /\ outcome' = NoOutcome
    /\ UNCHANGED <<uiVars, platform, subject, last, pickerVars>>

\* processImageForAttachment(base64, fileName) up to its first await, or to
\* its return when it awaits nothing.
ProcessImageForAttachment ==
    /\ Idle
    /\ \E fileName \in FileNames :
        LET mimeType == extractMimeType(subject)
        IN  IF ~isSupportedImageType(mimeType)
                THEN /\ call' = Returned(Call("processImageForAttachment", subject,
                                                  fileName, MAX_DIMENSION))
                     /\ outcome' = ErrorResult(UnsupportedMsg(mimeType))
                     /\ effects' = <<>>
                     /\ settled' = NoOutcome
                     /\ io' = NoIo
                ELSE IF platform = "web"
                    THEN /\ call' = Call("processImageForAttachment", subject,
                                         fileName, MAX_DIMENSION)
                         /\ StartResizeWeb(subject, MAX_DIMENSION)
                         /\ outcome' = NoOutcome
                    ELSE /\ call' = Returned(Call("processImageForAttachment",
                                                  subject, fileName, MAX_DIMENSION))
                         /\ outcome' = processWebNoResize(subject, mimeType, fileName)
                         /\ effects' = <<>>
                         /\ settled' = NoOutcome
                         /\ io' = NoIo
    /\ UNCHANGED <<uiVars, platform, subject, last, pickerVars>>

\* processImageForAttachmentNative(uri, fileName) up to its first await.
ProcessImageForAttachmentNative ==
    /\ Idle
    /\ \E fileName \in FileNames :
        call' = Call("processImageForAttachmentNative", subject, fileName,
                     MAX_DIMENSION)
    /\ StartResizeNative(subject, MAX_DIMENSION)
    /\ outcome' = NoOutcome
    /\ UNCHANGED <<uiVars, platform, subject, last, pickerVars>>

\* createThumbnail(base64, maxDimension): the original off the web.
CreateThumbnail ==
    /\ Idle
    /\ \E b \in Bounds :
        IF platform # "web"
            THEN /\ call' = Returned(Call("createThumbnail", subject, "", b))
                 /\ outcome' = StringResult(subject)
                 /\ effects' = <<>>
                 /\ settled' = NoOutcome
                 /\ io' = NoIo
            ELSE /\ call' = Call("createThumbnail", subject, "", b)
                 /\ StartResizeWeb(subject, b)
                 /\ outcome' = NoOutcome
    /\ UNCHANGED <<uiVars, platform, subject, last, pickerVars>>

\* createThumbnailNative(uri, maxDimension) up to its await.
CreateThumbnailNative ==
    /\ Idle
    /\ \E b \in Bounds :
        /\ call' = Call("createThumbnailNative", subject, "", b)
        /\ StartResizeNative(subject, b)
    /\ outcome' = NoOutcome
    /\ UNCHANGED <<uiVars, platform, subject, last, pickerVars>>

\* --------------------------------------------------------------- picker hooks
Asset(uri, base64, width, height, mimeType, fileName) ==
    [uri |-> uri, base64 |-> base64, width |-> width, height |-> height,
     mimeType |-> mimeType, fileName |-> fileName]

\* The MIME hint a picker reports for a file of this extension.
HintOf(ext) ==
    CASE LowerExt(ext) = "png" -> "image/png"
      [] LowerExt(ext) = "heic" -> "image/heic"
      [] OTHER -> "image/jpeg"

PickerUris ==
    {Str("file", "jpg", <<40>>, 2000, 1000),
     Str("file", "PNG", <<40>>, 500, 400),
     Str("file", "heic", <<40>>, 1024, 1025)}
\* The payload a picker hands over inline (NoStr: none).
InlinePayloads(uri) ==
    {NoStr} \cup {Str("raw", "", <<n>>, uri.w, uri.h) :
                    n \in EncLens(uri.w, uri.h) \ {LimitLen}}
\* The assets a picker reports: the file, its payload or none, its pixel
\* size, its MIME hint or none, its name.
PickerAssets ==
    UNION {{Asset(u, b, u.w, u.h, m, "IMG_1.jpg") :
                b \in InlinePayloads(u), m \in {"", HintOf(u.mime)}} :
           u \in PickerUris}
    \cup {Asset(Str("file", "jpg", <<40>>, 0, 0), NoStr, 0, 0, "", "")}

RECURSIVE SeqsUpTo(_, _)
SeqsUpTo(S, n) ==
    IF n = 0 THEN {<<>>}
    ELSE LET shorter == SeqsUpTo(S, n - 1)
         IN  shorter \cup {Append(q, x) : q \in shorter, x \in S}
Selections == SeqsUpTo(PickerAssets, MaxAssets) \ {<<>>}

ListResult(items) == [tag |-> "list", items |-> items]

\* "Override dimensions from picker if available"
OverrideDims(processed, asset) ==
    IF asset.width # 0 /\ asset.height # 0
        THEN [processed EXCEPT !.width = asset.width, !.height = asset.height]
        ELSE processed

\* The hook that reads payloads itself: one asset, its payload in hand.
inlineProcessOne(asset, base64Data) ==
    LET mimeType == IF asset.mimeType # "" THEN asset.mimeType
                    ELSE hookGetMimeTypeFromUri(asset.uri)
        dataUrl == Prefixed(mimeType, base64Data)
        estimatedSize == EstimateSize(base64Data)
    IN  IF estimatedSize > MAX_FILE_SIZE
            THEN ErrorResult(TooLargeMsg("Image too large",
                     Round(estimatedSize, 1024 * 1024), "MB", 5, "MB"))
            ELSE Image(dataUrl, mimeType, asset.width, asset.height,
                       asset.fileName, estimatedSize)

\* One pass of a loop body's tail: push the image, or report and skip.
Kept(res, processed) ==
    IF processed.tag = "error" THEN res ELSE Append(res, processed)
ReportedNothing(rep, processed) == rep
Reported(rep, processed) ==
    IF processed.tag = "error" THEN Append(rep, processed.error) ELSE rep

\* The loop of the payload-reading hook from one suspension to the next:
\* assets with an inline payload are handled without awaiting anything.
RECURSIVE RunInline(_, _, _)
RunInline(assets, res, rep) ==
    IF assets = <<>> \/ Head(assets).base64 = NoStr
        THEN [pending |-> assets, results |-> res, reported |-> rep]
        ELSE LET processed == inlineProcessOne(Head(assets), Head(assets).base64)
             IN  RunInline(Tail(assets), Kept(res, processed),
                           Reported(rep, processed))

\* The payload-reading hook arrives at `st`: it awaits a file read or returns.
InlineArrive(st) ==
    /\ pending' = st.pending
    /\ results' = st.results
    /\ reported' = st.reported
    /\ effects' = <<>>
    /\ settled' = NoOutcome
    /\ IF st.pending = <<>>
           THEN /\ io' = NoIo
                /\ call' = Returned(Call("processAssetsInline", NoStr, "", 0))
                /\ outcome' = ListResult(st.results)
           ELSE /\ io' = Io("read", Head(st.pending).uri, 0)
                /\ call' = Call("processAssetsInline", NoStr, "", 0)
                /\ outcome' = NoOutcome

\* processAssets(assets) of the hook built on processImageForAttachmentNative.
ProcessAssetsNative ==
    /\ Idle
    /\ pending' = selected
    /\ StartResizeNative(Head(selected).uri, MAX_DIMENSION)
    /\ results' = <<>>
    /\ reported' = <<>>
    /\ call' = Call("processAssetsNative", NoStr, "", MAX_DIMENSION)
    /\ outcome' = NoOutcome
    /\ UNCHANGED <<uiVars, platform, subject, last, selected>>

\* processAssets(assets) of the hook that reads payloads itself.
ProcessAssetsInline ==
    /\ Idle
    /\ InlineArrive(RunInline(selected, <<>>, <<>>))
    /\ UNCHANGED <<uiVars, platform, subject, last, selected>>

\* FileSystem.readAsStringAsync resolved with n characters.
FsReadResolved ==
    /\ io.pc = "read"
    /\ \E n \in EncLens(io.uri.w, io.uri.h) :
        LET asset == Head(pending)
            base64Data == Str("raw", "", <<n>>, asset.uri.w, asset.uri.h)
            processed == inlineProcessOne(asset, base64Data)
        IN  InlineArrive(RunInline(Tail(pending), Kept(results, processed),
                                   Reported(reported, processed)))
    /\ UNCHANGED <<uiVars, platform, subject, last, selected>>

\* FileSystem.readAsStringAsync rejected: the loop body's catch.
FsReadRejected ==
    /\ io.pc = "read"
    /\ InlineArrive(RunInline(Tail(pending), results, Append(reported, ReadError)))
    /\ UNCHANGED <<uiVars, platform, subject, last, selected>>

\* ------------------------------------------------------ the awaited calls end
Encoded(effs) == \E i \in 1..Len(effs) : effs[i].base64

\* A resize routine called directly, or by a processor, settled.
DirectSettle(impl, resized, effs) ==
    /\ io' = NoIo
    /\ effects' = effs
    /\ settled' = resized
    /\ call' = Returned(call)
    /\ outcome' =
         CASE call.fn = "processImageForAttachment" ->
                processWebAfterResize(resized, call.fileName)
           [] call.fn = "processImageForAttachmentNative" ->
                processNativeAfterResize(resized, call.fileName)
           [] call.fn = "createThumbnail" ->
                createThumbnailAfterResize(call.arg, resized)
           [] call.fn = "createThumbnailNative" ->
                createThumbnailNativeAfterResize(call.arg, resized)
           [] OTHER ->
                IF resized.tag = "rejected" THEN Threw(resized.err) ELSE resized
    /\ last' = IF resized.tag = "rejected" THEN last
               ELSE [last EXCEPT ![impl] =
                        Summary(resized, call.maxDimension, Encoded(effs))]
    /\ UNCHANGED pickerVars

\* The native hook's loop body after `await processImageForAttachmentNative`.
PickerSettle(resized, effs) ==
    LET asset == Head(pending)
        processed == processNativeAfterResize(resized, asset.fileName)
        kept == IF processed.tag = "error" THEN results
                ELSE Append(results, OverrideDims(processed, asset))
    IN  /\ results' = kept
        /\ reported' = Reported(reported, processed)
        /\ pending' = Tail(pending)
        /\ IF Tail(pending) = <<>>
               THEN /\ io' = NoIo
                    /\ effects' = effs
                    /\ settled' = resized
                    /\ call' = Returned(call)
                    /\ outcome' = ListResult(kept)
               ELSE /\ StartResizeNative(Head(Tail(pending)).uri, MAX_DIMENSION)
                    /\ UNCHANGED <<call, outcome>>
        /\ UNCHANGED <<selected, last>>

Settle(impl, resized, effs) ==
    IF call.fn = "processAssetsNative"
        THEN PickerSettle(resized, effs)
        ELSE DirectSettle(impl, resized, effs)

\* The pixel size of the image each routine encodes.
WebSize(uri, maxDimension) ==
    IF WithinBounds(uri.w, uri.h, maxDimension)
        THEN <<uri.w, uri.h>>
        ELSE TargetSize(uri.w, uri.h, maxDimension)
NativeSize(uri, maxDimension) ==
    ServiceSize(uri, ResizeActions(uri.w, uri.h, maxDimension))

\* img.onload
ImgOnLoad ==
    /\ io.pc = "load"
    /\ Decodable(io.uri)
    /\ \E ctxOk \in BOOLEAN,
          encLen \in EncLens(WebSize(io.uri, io.maxDimension)[1],
                             WebSize(io.uri, io.maxDimension)[2]) :
        Settle("web",
               resizeImageWebOnLoad(io.uri, io.maxDimension, ctxOk, encLen),
               IF WebEncodes(io.uri, io.maxDimension, ctxOk)
                   THEN Append(effects,
                            Effect("encode",
                                   <<TargetSize(io.uri.w, io.uri.h, io.maxDimension)>>,
                                   TRUE))
                   ELSE effects)
    /\ UNCHANGED <<uiVars, platform, subject>>

\* img.onerror
ImgOnError ==
    /\ io.pc = "load"
    /\ ~Decodable(io.uri)
    /\ Settle("web", Rejected(LoadError), effects)
    /\ UNCHANGED <<uiVars, platform, subject>>

\* The first manipulateAsync (no actions, base64: false) resolved: the routine
\* goes on to its second call.
ManipulateInfoResolved ==
    /\ io.pc = "info"
    /\ ServiceAccepts(io.uri, <<>>)
    /\ io' = Io("encode", io.uri, io.maxDimension)
    /\ effects' = Append(effects,
                     Effect("manipulate",
                            ResizeActions(io.uri.w, io.uri.h, io.maxDimension), TRUE))
    /\ UNCHANGED <<uiVars, platform, subject, call, settled, outcome, last, pickerVars>>

ManipulateInfoRejected ==
    /\ io.pc = "info"
    /\ Settle("native", Rejected(ServiceError), effects)
    /\ UNCHANGED <<uiVars, platform, subject>>

\* The second manipulateAsync (base64: true) resolved.
ManipulateEncodeResolved ==
    /\ io.pc = "encode"
    /\ ServiceAccepts(io.uri, ResizeActions(io.uri.w, io.uri.h, io.maxDimension))
    /\ \E encLen \in EncLens(NativeSize(io.uri, io.maxDimension)[1],
                             NativeSize(io.uri, io.maxDimension)[2]) :
        Settle("native", resizeImageNativeReturn(io.uri, io.maxDimension, encLen),
               effects)
    /\ UNCHANGED <<uiVars, platform, subject>>

ManipulateEncodeRejected ==
    /\ io.pc = "encode"
    /\ Settle("native", Rejected(ServiceError), effects)
    /\ UNCHANGED <<uiVars, platform, subject>>

\* ------------------------------------------------------------ specifications
\* Direct calls of the resize routines and the processors on one subject.
Next ==
    \/ ResizeImageWeb
    \/ ResizeImageNative
    \/ ProcessImageForAttachment
    \/ ProcessImageForAttachmentNative
    \/ CreateThumbnail
    \/ CreateThumbnailNative
    \/ ImgOnLoad
    \/ ImgOnError
    \/ ManipulateInfoResolved
    \/ ManipulateInfoRejected
    \/ ManipulateEncodeResolved
    \/ ManipulateEncodeRejected

Spec == Init /\ [][Next]_vars

\* The asset loops of the two picker hooks.
NextPicker ==
    \/ ProcessAssetsNative
    \/ ProcessAssetsInline
    \/ FsReadResolved
    \/ FsReadRejected
    \/ ManipulateInfoResolved
    \/ ManipulateInfoRejected
    \/ ManipulateEncodeResolved
    \/ ManipulateEncodeRejected

\* A picker returned a selection; the hook's processAssets runs on it.
InitPicker ==
    /\ platform = "ios"
    /\ subject = NoStr
    /\ call = NoCall
    /\ io = NoIo
    /\ effects = <<>>
    /\ settled = NoOutcome
    /\ outcome = NoOutcome
    /\ last = NoLast
    /\ selected \in Selections
    /\ pending = <<>>
    /\ results = <<>>
    /\ reported = <<>>
    /\ HookUnused
    /\ WidgetUnused

SpecPicker == InitPicker /\ [][NextPicker]_vars

\* ------------------------------------------------- acquisition calls (hooks)
\* What is left unchanged by every step of an acquisition call.
hookFrame == <<platform, subject, call, io, effects, settled, outcome, last,
               selected, pending, results, reported, hook, widgetVars>>

PermissionError == [kind |-> "permission query failed"]
LaunchError == [kind |-> "launch failed"]

\* `return []` of pickFromGallery, `return null` of takePhoto.
EmptyResult(fn) == IF fn = "pickFromGallery" THEN ListResult(<<>>) ELSE NullResult

\* status === 'granted'
GrantedAnyway(status) == TRUE
Granted(status) == status = "granted"

\* The permission step once the platform reported status and canAskAgain:
\* return true, show the open-settings prompt and return false, or go on to
\* request the permission.
PermissionAlwaysAsks(status, canAskAgain) ==
    IF Granted(status) THEN "granted" ELSE "request"
PermissionStep(status, canAskAgain) ==
    IF Granted(status) THEN "granted"
    ELSE IF ~canAskAgain THEN "prompt"
    ELSE "request"

\* result.canceled || !result.assets?.length
NeverEmpty(result) == FALSE
LaunchEmpty(result) == result.canceled \/ Len(result.assets) = 0

\* What the catch of an acquisition call returns.
AcquireRethrow(fn, err) == Threw(err)
AcquireCatch(fn, err) == EmptyResult(fn)

\* The assets a launcher hands back.  An easy one: a photo, with its payload
\* inline when the launcher was asked for it (base64: true).  A hard one: a
\* file that does not decode, or a photo whose payload must be read.
EasyAsset(h) ==
    Asset(Str("file", "jpg", <<40>>, 500, 400),
          IF h = "inline" THEN Str("raw", "", <<4>>, 500, 400) ELSE NoStr,
          500, 400, "image/jpeg", "IMG_1.jpg")
HardAsset(h) ==
    IF h = "inline"
        THEN Asset(Str("file", "jpg", <<40>>, 500, 400), NoStr, 500, 400,
                   "image/jpeg", "IMG_2.jpg")
        ELSE Asset(Str("file", "jpg", <<40>>, 0, 0), NoStr, 0, 0, "", "")
\* The selections: one asset, or MaxAssets of them, the hard one first.
HookSelections(h) ==
    {<<EasyAsset(h)>>,
     [i \in 1..MaxAssets |-> IF i = 1 THEN HardAsset(h) ELSE EasyAsset(h)]}
LaunchResults(h) ==
    {LaunchResult(TRUE, <<>>), LaunchResult(FALSE, <<>>)}
    \cup {LaunchResult(FALSE, a) : a \in HookSelections(h)}

\* What get...PermissionsAsync reports: <<status, canAskAgain>>.
PermissionReports ==
    {<<"granted", TRUE>>, <<"denied", TRUE>>, <<"denied", FALSE>>}

\* What resizeImageNative may settle to for this uri.
resizeImageNativeOutcomes(uri, maxDimension) ==
    {Rejected(ServiceError)}
    \cup (IF ServiceAccepts(uri, ResizeActions(uri.w, uri.h, maxDimension))
              THEN {resizeImageNativeReturn(uri, maxDimension, n) :
                       n \in EncLens(NativeSize(uri, maxDimension)[1],
                                     NativeSize(uri, maxDimension)[2])}
              ELSE {})
\* What the promise of processImageForAttachmentNative may resolve to.
processImageForAttachmentNativeOutcomes(uri, fileName) ==
    {processNativeAfterResize(r, fileName) :
        r \in resizeImageNativeOutcomes(uri, MAX_DIMENSION)}

\* The call leaves with ret, the loading flag being flag as it leaves.
AcqReturn(c, a, ret, flag) ==
    /\ acq' = [acq EXCEPT ![c] = [a EXCEPT !.pc = "done", !.ret = ret,
                                             !.flagAtEnd = flag]]
    /\ isLoading' = flag

\* `if (!hasPermission) return ...`: before setIsLoading(true).
AcqDeniedRaised(c, a) == AcqReturn(c, a, EmptyResult(a.fn), TRUE)
AcqDenied(c, a) == AcqReturn(c, a, EmptyResult(a.fn), isLoading)

\* setIsLoading(true) and the launcher call.
AcqLaunch(c, a) ==
    /\ isLoading' = TRUE
    /\ acq' = [acq EXCEPT ![c] = [a EXCEPT !.pc = "launch", !.raised = TRUE,
                                             !.launches = @ + 1]]

\* catch (err): flag down, onError, empty result.
AcqCatch(c, a, err) ==
    AcqReturn(c, [a EXCEPT !.failed = err, !.reported = Append(@, err)],
              AcquireCatch(a.fn, err), FALSE)

\* After `await processAssets`: onImagesPicked, flag down, return.
AcqFinishAlwaysNotifies(c, a, images, rep) ==
    AcqReturn(c, [a EXCEPT !.reported = rep, !.picked = Append(@, images)],
              IF a.fn = "pickFromGallery" THEN ListResult(images)
              ELSE IF images # <<>> THEN images[1] ELSE NullResult,
              FALSE)
AcqFinish(c, a, images, rep) ==
    IF a.fn = "pickFromGallery"
        THEN AcqReturn(c,
                 [a EXCEPT !.reported = rep,
                           !.picked = IF Len(images) > 0 THEN Append(@, images)
                                      ELSE @],
                 ListResult(images), FALSE)
        ELSE AcqReturn(c,
                 [a EXCEPT !.reported = rep,
                           !.picked = IF images # <<>> THEN Append(@, <<images[1]>>)
                                      ELSE @],
                 IF images # <<>> THEN images[1] ELSE NullResult, FALSE)

\* processAssets of call c arrives at st: it awaits the next asset, or it
\* returns and the acquisition call finishes.
AcqArrive(c, a, st) ==
    IF st.pending = <<>>
        THEN AcqFinish(c, [a EXCEPT !.pending = <<>>, !.results = st.results],
                       st.results, st.reported)
        ELSE /\ acq' = [acq EXCEPT ![c] =
                           [a EXCEPT !.pc = IF hook = "inline" THEN "read"
                                            ELSE "process",
                                     !.pending = st.pending,
                                     !.results = st.results,
                                     !.reported = st.reported]]
             /\ UNCHANGED isLoading

\* `await processAssets(result.assets)` up to its first await.
AcqProcess(c, a, assets) ==
    AcqArrive(c, [a EXCEPT !.processing = TRUE],
              IF hook = "inline"
                  THEN RunInline(assets, <<>>, a.reported)
                  ELSE [pending |-> assets, results |-> <<>>,
                        reported |-> a.reported])

\* pickFromGallery / takePhoto up to the first platform call awaited.
AcqStart(c, fn) ==
    /\ acq[c].fn = "none"
    /\ \A b \in Calls : b < c => acq[b].fn # "none"
    /\ IF platform = "web"
           THEN AcqLaunch(c, [NoAcq EXCEPT !.fn = fn, !.status = "web"])
           ELSE /\ acq' = [acq EXCEPT ![c] = [NoAcq EXCEPT !.fn = fn, !.pc = "query",
                                                           !.queries = 1]]
                /\ UNCHANGED isLoading
    /\ UNCHANGED hookFrame

PickFromGallery == \E c \in Calls : AcqStart(c, "pickFromGallery")
TakePhoto == \E c \in Calls : AcqStart(c, "takePhoto")

\* get...PermissionsAsync resolved.
PermissionQueryResolved ==
    \E c \in Calls, report \in PermissionReports :
        LET status == report[1]
            canAskAgain == report[2]
            a == [acq[c] EXCEPT !.status = status, !.canAskAgain = canAskAgain]
            step == PermissionStep(status, canAskAgain)
        IN  /\ acq[c].pc = "query"
            /\ CASE step = "granted" -> AcqLaunch(c, a)
                 [] step = "prompt" -> AcqDenied(c, [a EXCEPT !.alerts = @ + 1])
                 [] OTHER ->
                      /\ acq' = [acq EXCEPT ![c] = [a EXCEPT !.pc = "request",
                                                             !.requests = @ + 1]]
                      /\ UNCHANGED isLoading
            /\ UNCHANGED hookFrame

PermissionQueryRejected ==
    \E c \in Calls :
        /\ acq[c].pc = "query"
        /\ AcqCatch(c, acq[c], PermissionError)
        /\ UNCHANGED hookFrame

\* request...PermissionsAsync resolved.
PermissionRequestResolved ==
    \E c \in Calls, newStatus \in {"granted", "denied"} :
        LET a == [acq[c] EXCEPT !.status = newStatus]
        IN  /\ acq[c].pc = "request"
            /\ IF Granted(newStatus) THEN AcqLaunch(c, a) ELSE AcqDenied(c, a)
            /\ UNCHANGED hookFrame

PermissionRequestRejected ==
    \E c \in Calls :
        /\ acq[c].pc = "request"
        /\ AcqCatch(c, acq[c], PermissionError)
        /\ UNCHANGED hookFrame

\* launchImageLibraryAsync / launchCameraAsync resolved.
LaunchResolved ==
    \E c \in Calls, result \in LaunchResults(hook) :
        LET a == [acq[c] EXCEPT !.launched = result]
        IN  /\ acq[c].pc = "launch"
            /\ IF LaunchEmpty(result)
                   THEN AcqReturn(c, a, EmptyResult(a.fn), FALSE)
                   ELSE AcqProcess(c, a, result.assets)
            /\ UNCHANGED hookFrame

LaunchRejected ==
    \E c \in Calls :
        /\ acq[c].pc = "launch"
        /\ AcqCatch(c, acq[c], LaunchError)
        /\ UNCHANGED hookFrame

\* `await processImageForAttachmentNative(asset.uri, ...)` resolved.
AssetProcessed ==
    \E c \in Calls :
        /\ acq[c].pc = "process"
        /\ LET a == acq[c]
               asset == Head(a.pending)
           IN  \E processed \in
                     processImageForAttachmentNativeOutcomes(asset.uri, asset.fileName) :
                   AcqArrive(c, a,
                       [pending |-> Tail(a.pending),
                        results |-> IF processed.tag = "error" THEN a.results
                                    ELSE Append(a.results,
                                                OverrideDims(processed, asset)),
                        reported |-> Reported(a.reported, processed)])
        /\ UNCHANGED hookFrame

\* `await FileSystem.readAsStringAsync(asset.uri, ...)` resolved.
AssetRead ==
    \E c \in Calls :
        /\ acq[c].pc = "read"
        /\ LET a == acq[c]
               asset == Head(a.pending)
           IN  \E n \in EncLens(asset.uri.w, asset.uri.h) :
                   LET base64Data == Str("raw", "", <<n>>, asset.uri.w, asset.uri.h)
                       processed == inlineProcessOne(asset, base64Data)
                   IN  AcqArrive(c, a,
                           RunInline(Tail(a.pending), Kept(a.results, processed),
                                     Reported(a.reported, processed)))
        /\ UNCHANGED hookFrame

AssetReadRejected ==
    \E c \in Calls :
        /\ acq[c].pc = "read"
        /\ AcqArrive(c, acq[c],
               RunInline(Tail(acq[c].pending), acq[c].results,
                         Append(acq[c].reported, ReadError)))
        /\ UNCHANGED hookFrame

NextHook ==
    \/ PickFromGallery
    \/ TakePhoto
    \/ PermissionQueryResolved
    \/ PermissionQueryRejected
    \/ PermissionRequestResolved
    \/ PermissionRequestRejected
    \/ LaunchResolved
    \/ LaunchRejected
    \/ AssetProcessed
    \/ AssetRead
    \/ AssetReadRejected

\* One hook instance, of either file, on either kind of platform.
InitHook ==
    /\ platform \in {"web", "ios"}
    /\ hook \in {"native", "inline"}
    /\ subject = NoStr
    /\ call = NoCall
    /\ io = NoIo
    /\ effects = <<>>
    /\ settled = NoOutcome
    /\ outcome = NoOutcome
    /\ last = NoLast
    /\ selected = <<>>
    /\ pending = <<>>
    /\ results = <<>>
    /\ reported = <<>>
    /\ acq = [c \in Calls |-> NoAcq]
    /\ isLoading = FALSE
    /\ WidgetUnused

SpecHook == InitHook /\ [][NextHook]_vars

\* ----------------------------------------------- clipboard checks (text input)
widgetFrame == <<platform, subject, call, io, effects, settled, outcome, last,
                 selected, pending, results, reported, hookVars, onImagePaste,
                 inputVars, content>>

\* What Clipboard.getImageAsync resolves to: the payload as blocks of 100
\* characters (the last one may be shorter) and the image it encodes.
ClipImage(text, w, h) == [text |-> text, w |-> w, h |-> h]
NoClipImage == ClipImage(<<>>, 0, 0)
ClipImages ==
    {ClipImage(<<"data:A", "x">>, 500, 400),
     ClipImage(<<"data:A", "y">>, 4, 3),
     ClipImage(<<"B">>, 2, 2),
     ClipImage(<<"B", "x">>, 0, 0)}

\* clipboardImage.data.substring(0, 100)
WholeText(text) == text
Substring100(text) == SubSeq(text, 1, 1)
\* imageHash === lastClipboardImageHash.current
NeverSame(imageHash, lastHash) == FALSE
SameImage(imageHash, lastHash) == imageHash = lastHash
\* clipboardImage.data.startsWith('data:')
StartsWithData(text) == text[1] \in {"data:A"}
\* The number of characters of the payload after a data: prefix.
ClipLen(text) == 100 * Len(text) - 22
\* "Prepare base64 data"
PrepareBase64(img) ==
    IF StartsWithData(img.text)
        THEN DataUrl("image/png", ClipLen(img.text), img.w, img.h)
        ELSE Prefixed("image/png",
                      Str("raw", "", <<100 * Len(img.text)>>, img.w, img.h))

\* `if (!onImagePaste || isCheckingClipboard.current) return;`
SkipWithoutProp(hasProp, checking) == ~hasProp
CheckSkipped(hasProp, checking) == ~hasProp \/ checking

\* The check ends: the guard is let go.
CheckEndHoldsGuard(k, ch) ==
    /\ checks' = [checks EXCEPT ![k] = [ch EXCEPT !.pc = "done"]]
    /\ UNCHANGED isCheckingClipboard
CheckEnd(k, ch) ==
    /\ checks' = [checks EXCEPT ![k] = [ch EXCEPT !.pc = "done"]]
    /\ isCheckingClipboard' = FALSE

\* checkClipboardForImage() up to `await Clipboard.hasImageAsync()`.
CheckClipboardForImage ==
    \E k \in Checks :
        /\ checks[k].pc = "idle"
        /\ \A j \in Checks : j < k => checks[j].pc # "idle"
        /\ LET ch == [checks[k] EXCEPT !.blocked = isCheckingClipboard]
           IN  IF CheckSkipped(onImagePaste, isCheckingClipboard)
                   THEN /\ checks' = [checks EXCEPT ![k] = [ch EXCEPT !.pc = "done"]]
                        /\ UNCHANGED isCheckingClipboard
                   ELSE /\ checks' = [checks EXCEPT ![k] =
                                         [ch EXCEPT !.pc = "has", !.probed = TRUE]]
                        /\ isCheckingClipboard' = TRUE
        /\ UNCHANGED <<widgetFrame, lastClipboardImageHash>>

HasImageResolved ==
    \E k \in Checks, hasImage \in BOOLEAN :
        /\ checks[k].pc = "has"
        /\ IF ~hasImage
               THEN CheckEnd(k, checks[k])
               ELSE /\ checks' = [checks EXCEPT ![k] =
                                     [@ EXCEPT !.pc = "get", !.fetched = TRUE]]
                    /\ UNCHANGED isCheckingClipboard
        /\ UNCHANGED <<widgetFrame, lastClipboardImageHash>>

HasImageRejected ==
    \E k \in Checks :
        /\ checks[k].pc = "has"
        /\ CheckEnd(k, checks[k])
        /\ UNCHANGED <<widgetFrame, lastClipboardImageHash>>

\* getImageAsync resolved: no data, the image seen last, or a new image,
\* whose processing is handed to InteractionManager.runAfterInteractions.
GetImageResolved ==
    \E k \in Checks, img \in {NoClipImage} \cup ClipImages :
        /\ checks[k].pc = "get"
        /\ IF img.text = <<>>
               THEN /\ CheckEnd(k, checks[k])
                    /\ UNCHANGED lastClipboardImageHash
               ELSE LET imageHash == Substring100(img.text)
                        ch == [checks[k] EXCEPT !.text = img.text,
                                                !.compared = TRUE,
                                                !.before = lastClipboardImageHash]
                    IN  IF SameImage(imageHash, lastClipboardImageHash)
                            THEN /\ CheckEnd(k, ch)
                                 /\ UNCHANGED lastClipboardImageHash
                            ELSE /\ lastClipboardImageHash' = imageHash
                                 /\ checks' = [checks EXCEPT ![k] =
                                                  [ch EXCEPT !.pc = "deferred",
                                                             !.data = PrepareBase64(img)]]
                                 /\ UNCHANGED isCheckingClipboard
        /\ UNCHANGED widgetFrame

GetImageRejected ==
    \E k \in Checks :
        /\ checks[k].pc = "get"
        /\ CheckEnd(k, checks[k])
        /\ UNCHANGED <<widgetFrame, lastClipboardImageHash>>

\* The deferred callback starts: up to `await processImageForAttachmentNative`.
RunAfterInteractions ==
    \E k \in Checks :
        /\ checks[k].pc = "deferred"
        /\ checks' = [checks EXCEPT ![k] = [@ EXCEPT !.pc = "process",
                                                      !.handed = TRUE]]
        /\ UNCHANGED <<widgetFrame, lastClipboardImageHash, isCheckingClipboard>>

\* The processor resolved: onImagePaste on success, and the finally.
ClipboardProcessed ==
    \E k \in Checks :
        /\ checks[k].pc = "process"
        /\ \E processed \in processImageForAttachmentNativeOutcomes(
                                 checks[k].data, "clipboard-image.png"),
              pasteThrows \in BOOLEAN :
               CheckEnd(k, [checks[k] EXCEPT
                               !.processed = processed,
                               !.delivered = IF processed.tag = "error" THEN @
                                             ELSE @ + 1,
                               !.threw = processed.tag # "error" /\ pasteThrows])
        /\ UNCHANGED <<widgetFrame, lastClipboardImageHash>>

NextClipboard ==
    \/ CheckClipboardForImage
    \/ HasImageResolved
    \/ HasImageRejected
    \/ GetImageResolved
    \/ GetImageRejected
    \/ RunAfterInteractions
    \/ ClipboardProcessed

\* One mounted text input, with or without the onImagePaste prop.
InitClipboard ==
    /\ platform = "ios"
    /\ subject = NoStr
    /\ call = NoCall
    /\ io = NoIo
    /\ effects = <<>>
    /\ settled = NoOutcome
    /\ outcome = NoOutcome
    /\ last = NoLast
    /\ selected = <<>>
    /\ pending = <<>>
    /\ results = <<>>
    /\ reported = <<>>
    /\ HookUnused
    /\ onImagePaste \in BOOLEAN
    /\ isCheckingClipboard = FALSE
    /\ lastClipboardImageHash = NoHash
    /\ checks = [k \in Checks |-> NoCheck]
    /\ InputUnused
    /\ ContentUnused

SpecClipboard == InitClipboard /\ [][NextClipboard]_vars

\* The same, where every promise the check awaits settles and the deferred
\* callback is run.
SpecClipboardLive ==
    /\ InitClipboard /\ [][NextClipboard]_vars
    /\ WF_vars(HasImageResolved \/ HasImageRejected)
    /\ WF_vars(GetImageResolved \/ GetImageRejected)
    /\ WF_vars(RunAfterInteractions)
    /\ WF_vars(ClipboardProcessed)

\* ------------------------------------------------ selection (text input)
inputFrame == <<platform, subject, call, io, effects, settled, outcome, last,
                selected, pending, results, reported, hookVars, onImagePaste,
                isCheckingClipboard, lastClipboardImageHash, checks, content,
                onSelectionChange, onStateChange>>

\* The texts the input holds and the positions a selection may name.
Texts == {[i \in 1..n |-> "a"] : n \in 0..MaxText}
Positions == 0..MaxText
TextSelections == {Selection(start, end) : start \in Positions, end \in Positions}

\* One call of a callback prop, or of setNativeProps on the native input.
Notify(cb, text, selection) == [cb |-> cb, text |-> text, selection |-> selection]
Event(op, text, selection, notified) ==
    [op |-> op, text |-> text, selection |-> selection, before |-> selectionRef,
     attached |-> inputRef, notified |-> notified]
\* `if (onStateChange) { onStateChange({ text, selection }); }`
StateChangeCalls(text, selection) ==
    IF onStateChange THEN <<Notify("onStateChange", text, selection)>> ELSE <<>>
\* `if (onSelectionChange) { onSelectionChange(selection); }`
SelectionChangeCalls(selection) ==
    IF onSelectionChange THEN <<Notify("onSelectionChange", <<>>, selection)>> ELSE <<>>
\* The argument of the last onSelectionChange call once calls were made.
LastReported(calls) ==
    IF \E i \in 1..Len(calls) : calls[i].cb = "onSelectionChange"
        THEN (CHOOSE c \in {calls[i] : i \in 1..Len(calls)} :
                 c.cb = "onSelectionChange").selection
        ELSE lastSelection

\* A handler ran: its event and the callbacks it called are recorded.
Handled(op, text, selection, notified) ==
    /\ handled' = Event(op, text, selection, notified)
    /\ lastSelection' = LastReported(notified)

\* handleTextChange(text)
HandleTextChange ==
    \E text \in Texts :
        LET selection == Selection(Len(text), Len(text))
        IN  /\ selectionRef' = selection
            /\ Handled("textChange", text, selection,
                       <<Notify("onChangeText", text, NoSelection)>>
                           \o StateChangeCalls(text, selection)
                           \o SelectionChangeCalls(selection))
            /\ UNCHANGED <<inputFrame, inputRef, value>>

\* `selection.start !== selectionRef.current.start || selection.end !== ...`
SelectionAlwaysChanged(selection, current) == TRUE
SelectionChanged(selection, current) ==
    selection.start # current.start \/ selection.end # current.end

\* handleSelectionChange(e), e.nativeEvent.selection being undefined or a
\* selection.
HandleSelectionChange ==
    \E selection \in {NoSelection} \cup TextSelections :
        /\ IF selection # NoSelection /\ SelectionChanged(selection, selectionRef)
               THEN /\ selectionRef' = selection
                    /\ Handled("selectionChange", value, selection,
                               SelectionChangeCalls(selection)
                                   \o StateChangeCalls(value, selection))
               ELSE /\ Handled("selectionChange", value, selection, <<>>)
                    /\ UNCHANGED selectionRef
        /\ UNCHANGED <<inputFrame, inputRef, value>>

\* The imperative handle's setTextAndSelection(text, selection).
SetTextAndSelection ==
    \E text \in Texts, selection \in TextSelections :
        /\ IF inputRef
               THEN /\ selectionRef' = selection
                    /\ Handled("setTextAndSelection", text, selection,
                               <<Notify("setNativeProps", text, selection),
                                 Notify("onChangeText", text, NoSelection)>>
                                   \o StateChangeCalls(text, selection)
                                   \o SelectionChangeCalls(selection))
               ELSE /\ Handled("setTextAndSelection", text, selection, <<>>)
                    /\ UNCHANGED selectionRef
        /\ UNCHANGED <<inputFrame, inputRef, value>>

\* The parent renders the input with another value prop.
Render ==
    \E text \in Texts :
        /\ text # value
        /\ value' = text
        /\ UNCHANGED <<inputFrame, inputRef, selectionRef, handled, lastSelection>>

\* The native input mounts or unmounts: `ref={inputRef}`.
InputRefChanged ==
    /\ inputRef' = ~inputRef
    /\ UNCHANGED <<inputFrame, value, selectionRef, handled, lastSelection>>

NextInput ==
    \/ HandleTextChange
    \/ HandleSelectionChange
    \/ SetTextAndSelection
    \/ Render
    \/ InputRefChanged

\* One text input, with or without its two optional callbacks.
InitInput ==
    /\ platform = "ios"
    /\ subject = NoStr
    /\ call = NoCall
    /\ io = NoIo
    /\ effects = <<>>
    /\ settled = NoOutcome
    /\ outcome = NoOutcome
    /\ last = NoLast
    /\ selected = <<>>
    /\ pending = <<>>
    /\ results = <<>>
    /\ reported = <<>>
    /\ HookUnused
    /\ onImagePaste = FALSE
    /\ isCheckingClipboard = FALSE
    /\ lastClipboardImageHash = NoHash
    /\ checks = [k \in Checks |-> NoCheck]
    /\ ContentUnused
    /\ selectionRef = Selection(0, 0)
    /\ inputRef = FALSE
    /\ value = <<>>
    /\ onSelectionChange \in BOOLEAN
    /\ onStateChange \in BOOLEAN
    /\ handled = NoEvent
    /\ lastSelection = NoSelection

SpecInput == InitInput /\ [][NextInput]_vars

\* ------------------------------------------------- toClaudeImageContent
\* ImageContentBlock
ContentBlock(media_type, data) ==
    [type |-> "image",
     source |-> [type |-> "base64", media_type |-> media_type, data |-> data]]

\* imageUtils.ts
toClaudeFromPrefix(image) ==
    ContentBlock(extractMimeType(image.base64), extractBase64Data(image.base64))
toClaudeImageContent(image) ==
    ContentBlock(image.mimeType, extractBase64Data(image.base64))

\* The records a caller converts: a mimeType of the type's four, over a data
\* URL of base64 data (possibly none) whose prefix names the same type or,
\* as the canvas processor makes them, another one.
PayloadLens == {0, 4, LimitLen}
ContentDims == {<<500, 400>>, <<3, 2>>}
AttachedImages ==
    {Image(DataUrl(prefix, n, d[1], d[2]), mimeType, d[1], d[2], "photo.jpg",
           Ceil(n * 3, 4)) :
        prefix \in DataMimes, mimeType \in SUPPORTED_TYPES,
        n \in PayloadLens, d \in ContentDims}

\* toClaudeImageContent(image) on the record the caller holds.
ToClaudeImageContent ==
    /\ outcome.tag = "image"
    /\ content' = [tag |-> "content", image |-> outcome,
                   block |-> toClaudeImageContent(outcome)]
    /\ UNCHANGED <<platform, subject, call, io, effects, settled, outcome, last,
                   pickerVars, hookVars, onImagePaste, isCheckingClipboard,
                   lastClipboardImageHash, checks, inputVars>>

NextContent == ToClaudeImageContent

\* A caller that holds one record.
InitContent ==
    /\ platform \in {"web", "ios"}
    /\ subject = NoStr
    /\ call = NoCall
    /\ io = NoIo
    /\ effects = <<>>
    /\ settled = NoOutcome
    /\ outcome \in AttachedImages
    /\ last = NoLast
    /\ selected = <<>>
    /\ pending = <<>>
    /\ results = <<>>
    /\ reported = <<>>
    /\ HookUnused
    /\ onImagePaste = FALSE
    /\ isCheckingClipboard = FALSE
    /\ lastClipboardImageHash = NoHash
    /\ checks = [k \in Checks |-> NoCheck]
    /\ InputUnused
    /\ ContentUnused

SpecContent == InitContent /\ [][NextContent]_vars

\* ==================================================================== claims
Processors == {"processImageForAttachment", "processImageForAttachmentNative"}

\* Every AttachedImage the state holds: returned, accumulated or delivered.
Produced ==
    (IF outcome.tag = "image" THEN {outcome} ELSE {})
    \cup (IF outcome.tag = "list"
              THEN {outcome.items[i] : i \in 1..Len(outcome.items)} ELSE {})
    \cup {results[i] : i \in 1..Len(results)}

\* Every message the state holds: returned in an error result, or reported.
Messages ==
    (IF outcome.tag = "error" THEN {outcome.error} ELSE {})
    \cup {reported[i] : i \in 1..Len(reported)}

\* A processor returned after its resize routine resolved.
AfterResize == call.fn \in Processors /\ ~call.running /\ settled.tag = "resolved"

\* The MIME type the processor in progress reads off its input.
InputMime ==
    IF call.fn = "processImageForAttachment"
        THEN extractMimeType(call.arg)
        ELSE getMimeTypeFromUri(call.arg)

\* The type named by a string's data: prefix ("" without one).
PrefixMime(s) == IF s.kind = "data" THEN s.mime ELSE ""

\* The number of characters that follow a string's data: prefix.
AfterPrefix(s) ==
    CASE s.kind = "data" -> SumSegs(s.segs) + (Len(s.segs) - 1)
      [] s.kind = "bare" -> 0
      [] OTHER -> StrLen(s)

\* r is a / d rounded to the nearest integer, halves up.
IsRound(r, a, d) == 2 * a - d < 2 * r * d /\ 2 * r * d <= 2 * a + d
\* c is the least integer with c >= a / d.
IsCeil(c, a, d) == c * d >= a /\ (c - 1) * d < a

\* C1: every AttachedImage produced by any processing path has fileSize <=
\* MAX_FILE_SIZE and a mimeType of the supported set.  The hook that builds
\* its records from the picker's MIME hint breaks it (SpecPicker).
C1_ProducedWithinConstraints ==
    \A r \in Produced :
        r.fileSize <= MAX_FILE_SIZE /\ r.mimeType \in SUPPORTED_TYPES

\* C2: width and height of a delivered AttachedImage, when present, are the
\* dimensions of the image its payload holds after the resize, each at most
\* MAX_DIMENSION.  The hooks copy the picker's dimensions (SpecPicker).
C2_DimensionsArePostResize ==
    \A r \in Produced :
        /\ r.width # Absent =>
              r.width <= MAX_DIMENSION /\ r.width = r.base64.w
        /\ r.height # Absent =>
              r.height <= MAX_DIMENSION /\ r.height = r.base64.h

\* C3: a processor given an input of an unsupported MIME type makes no
\* decode, encode or manipulate call and returns an error result naming the
\* type.  The native processor resizes first (Spec).
C3_UnsupportedRejectedBeforeResize ==
    (call.fn \in Processors /\ ~isSupportedImageType(InputMime)) =>
        /\ effects = <<>>
        /\ ~call.running =>
              /\ outcome.tag = "error"
              /\ outcome.error.kind = "Unsupported image type"

\* C4: whatever the resize step settles to, a processor returns a tagged
\* value, an AttachedImage or an error result, and never rejects.
C4_ProcessorAlwaysReturns ==
    (call.fn \in Processors /\ ~call.running) => outcome.tag \in {"image", "error"}
\* C4 witness: a processor whose resize rejected returned the error's message.
C4_Witness ==
    /\ call.fn \in Processors /\ ~call.running
    /\ settled.tag = "rejected"
    /\ outcome = ErrorResult(settled.err)

\* C5: after a resize, the processor returns an error result exactly when
\* ceil(len * 3 / 4) of the resized payload exceeds MAX_FILE_SIZE, and
\* otherwise a record whose fileSize is that estimate.
C5_SizeGateAfterResize ==
    AfterResize =>
        LET len == AfterPrefix(settled.base64)
        IN  IF 3 * len > 4 * MAX_FILE_SIZE
                THEN outcome.tag = "error"
                ELSE /\ outcome.tag = "image"
                     /\ IsCeil(outcome.fileSize, 3 * len, 4)
                     /\ outcome.fileSize <= MAX_FILE_SIZE
\* C5 witness: a payload one character over the limit was refused.
C5_Witness ==
    /\ AfterResize
    /\ AfterPrefix(settled.base64) = LimitLen + 1
    /\ outcome.tag = "error"

\* C6: the limit an over-size message names is MAX_FILE_SIZE.  The native
\* processor and the payload-reading hook name 5 MB (Spec).
LimitBytes(msg) ==
    msg.limit * (IF msg.limitUnit = "KB" THEN 1024 ELSE 1024 * 1024)
IsTooLarge(msg) ==
    msg.kind \in {"Image too large", "Image too large after compression"}
C6_MessageNamesConfiguredLimit ==
    \A msg \in Messages : IsTooLarge(msg) => LimitBytes(msg) = MAX_FILE_SIZE

\* C7: a resolved resize of a w x h image to bound b reports w x h when
\* neither side exceeds b; otherwise its longer side is b and its shorter
\* side is round(shorter * b / longer), so that both are at most b.
C7_ResizeDimensions ==
    (~call.running /\ settled.tag = "resolved"
        /\ call.fn \notin {"processAssetsNative", "processAssetsInline"}) =>
        LET w == call.arg.w
            h == call.arg.h
            b == call.maxDimension
        IN  IF w <= b /\ h <= b
                THEN settled.width = w /\ settled.height = h
                ELSE /\ w >= h => settled.width = b /\ IsRound(settled.height, h * b, w)
                     /\ h >= w => settled.height = b /\ IsRound(settled.width, w * b, h)
                     /\ settled.width <= b /\ settled.height <= b
\* C7 witness: both routines took 2000 x 1000 to 1024 x 512.
C7_Witness ==
    /\ subject.w = 2000 /\ subject.h = 1000
    /\ \A impl \in {"web", "native"} :
          /\ last[impl].tag = "resized"
          /\ last[impl].maxDimension = 1024
          /\ last[impl].width = 1024 /\ last[impl].height = 512

\* C8: a record that came out of a resize has mimeType image/png when the
\* source was PNG and image/jpeg otherwise, and its mimeType is the type its
\* payload's data: prefix names.  The web processor breaks both (Spec).
C8_OutputMimeMatchesPayload ==
    (AfterResize /\ outcome.tag = "image") =>
        /\ outcome.mimeType =
              (IF InputMime = "image/png" THEN "image/png" ELSE "image/jpeg")
        /\ outcome.mimeType = PrefixMime(outcome.base64)

\* C9: a resize routine given an image already within the bound still
\* encodes: its result comes from an encode step and is not its input.  The
\* canvas routine returns its input (Spec).
C9_WithinBoundsStillEncoded ==
    (~call.running /\ settled.tag = "resolved"
        /\ WithinBounds(call.arg.w, call.arg.h, call.maxDimension)) =>
        Encoded(effects)

\* C10: for the same image and bound the two resize routines give the same
\* dimensions, the same output MIME type and the same choice between
\* encoding and passing the input through, and the two processors give the
\* same verdict on the same resized payload (Spec).
C10_WebNativeEquivalent ==
    /\ (last.web.tag = "resized" /\ last.native.tag = "resized"
           /\ last.web.maxDimension = last.native.maxDimension) =>
          /\ last.web.width = last.native.width
          /\ last.web.height = last.native.height
          /\ last.web.mime = last.native.mime
          /\ last.web.encoded = last.native.encoded
    /\ \A n \in EncLens(MAX_DIMENSION, MAX_DIMENSION) :
          LET resized == Resolved(DataUrl("image/jpeg", n, 1, 1), 1, 1, "image/jpeg")
          IN  processWebAfterResize(resized, "").tag
                = processNativeAfterResize(resized, "").tag

\* C11: when the resize under a thumbnail fails, createThumbnail and
\* createThumbnailNative both resolve to the reference they were given.  The
\* web function awaits the resize outside any try and rejects (Spec).
Thumbnails == {"createThumbnail", "createThumbnailNative"}
C11_ThumbnailFallsBackToOriginal ==
    (call.fn \in Thumbnails /\ ~call.running /\ settled.tag = "rejected") =>
        outcome = StringResult(call.arg)

\* C12: of one hook instance at most one launcher call is in flight: a
\* pickFromGallery or takePhoto made while another call is between raising
\* the loading flag and completing does not reach the launcher.  Neither
\* function reads the flag (SpecHook).
C12_OneLauncherInFlight ==
    /\ Cardinality({c \in Calls : acq[c].pc = "launch"}) <= 1
    /\ \A c \in Calls :
          acq[c].pc = "launch" =>
              \A b \in Calls \ {c} : ~(acq[b].raised /\ acq[b].pc # "done")

\* C13: the launcher is called, and the loading flag raised, only in a call
\* whose own permission step returned granted; a call that was denied
\* returns the empty result having done neither.
Denied(a) == a.pc = "done" /\ a.status \in {"denied", "undetermined"}
C13_LaunchOnlyAfterGranted ==
    \A c \in Calls :
        /\ (acq[c].launches > 0 \/ acq[c].raised) =>
              acq[c].status \in {"granted", "web"}
        /\ Denied(acq[c]) =>
              /\ acq[c].ret = EmptyResult(acq[c].fn)
              /\ acq[c].launches = 0
              /\ ~acq[c].raised
\* C13 witness: one call was denied on request and returned, the other was
\* granted on request and reached the launcher.
C13_Witness ==
    \E c, b \in Calls :
        /\ Denied(acq[c]) /\ acq[c].requests = 1
        /\ acq[c].ret = EmptyResult(acq[c].fn)
        /\ acq[b].status = "granted" /\ acq[b].requests = 1 /\ acq[b].launches = 1

\* C14: when the platform reports not granted and canAskAgain false, the
\* call shows the open-settings prompt once, makes no request, and ends
\* with the empty result after that one query: no launcher, no retry.
C14_CannotAskAgainIsTerminal ==
    \A c \in Calls :
        /\ (acq[c].status \in {"denied", "undetermined"} /\ ~acq[c].canAskAgain) =>
              /\ acq[c].alerts = 1
              /\ acq[c].requests = 0
              /\ acq[c].queries = 1
              /\ acq[c].launches = 0
              /\ acq[c].pc = "done"
              /\ acq[c].ret = EmptyResult(acq[c].fn)
        /\ acq[c].alerts > 0 => ~acq[c].canAskAgain
\* C14 witness: a gallery call and a camera call both ended at the prompt.
C14_Witness ==
    \E c, b \in Calls :
        /\ acq[c].fn = "pickFromGallery" /\ acq[b].fn = "takePhoto"
        /\ \A x \in {c, b} :
              /\ acq[x].status = "denied" /\ ~acq[x].canAskAgain
              /\ acq[x].alerts = 1 /\ acq[x].pc = "done"
        /\ acq[c].ret = ListResult(<<>>) /\ acq[b].ret = NullResult

\* C15: when the launcher reports canceled, or no assets, the call returns
\* the empty result, makes no onImagesPicked call, processes nothing, and
\* leaves the loading flag false.
NothingPicked(result) == result.settled /\ (result.canceled \/ result.assets = <<>>)
C15_CanceledLeavesNothing ==
    \A c \in Calls :
        NothingPicked(acq[c].launched) =>
            /\ acq[c].pc = "done"
            /\ acq[c].ret = EmptyResult(acq[c].fn)
            /\ acq[c].picked = <<>>
            /\ ~acq[c].processing /\ acq[c].results = <<>>
            /\ acq[c].flagAtEnd = FALSE
\* C15 witness: a gallery call was canceled and a camera call got no assets,
\* each after raising the flag.
C15_Witness ==
    \E c, b \in Calls :
        /\ acq[c].fn = "pickFromGallery" /\ acq[c].launched.canceled
        /\ acq[b].fn = "takePhoto" /\ acq[b].launched.settled
        /\ ~acq[b].launched.canceled
        /\ \A x \in {c, b} :
              acq[x].raised /\ acq[x].pc = "done" /\ ~acq[x].flagAtEnd
        /\ acq[c].ret = ListResult(<<>>) /\ acq[b].ret = NullResult

\* C17: a rejection of the permission query, the permission request or the
\* launcher ends the call with the empty result, one onError call with the
\* message, and the loading flag false; no call's promise rejects.
C17_NoFailureEscapes ==
    \A c \in Calls :
        /\ acq[c].ret.tag # "threw"
        /\ acq[c].failed.kind # "none" =>
              /\ acq[c].pc = "done"
              /\ acq[c].ret = EmptyResult(acq[c].fn)
              /\ acq[c].reported # <<>>
              /\ acq[c].reported[Len(acq[c].reported)] = acq[c].failed
              /\ acq[c].flagAtEnd = FALSE
\* C17 witness: the launcher of one call and the permission query of the
\* other rejected.
C17_Witness ==
    \E c, b \in Calls :
        /\ acq[c].failed = LaunchError /\ acq[c].raised
        /\ acq[b].failed = PermissionError
        /\ \A x \in {c, b} :
              /\ acq[x].pc = "done" /\ acq[x].ret = EmptyResult(acq[x].fn)
              /\ acq[x].reported = <<acq[x].failed>>

\* C18: while a clipboard check of the widget is in flight, up to the end of
\* its deferred processing, a further checkClipboardForImage call returns
\* without probing or fetching the clipboard and without calling the
\* processor: at most one check is in flight.
InFlight == {"has", "get", "deferred", "process"}
C18_OneClipboardCheckInFlight ==
    /\ Cardinality({k \in Checks : checks[k].pc \in InFlight}) <= 1
    /\ (\E k \in Checks : checks[k].pc \in InFlight) => isCheckingClipboard
    /\ \A k \in Checks :
          checks[k].blocked =>
              /\ checks[k].pc = "done"
              /\ ~checks[k].probed /\ ~checks[k].fetched /\ ~checks[k].handed
              /\ checks[k].delivered = 0
\* C18 witness: a call made during the deferred processing of another
\* returned at once.
C18_Witness ==
    \E k, j \in Checks :
        /\ checks[j].pc = "process"
        /\ checks[k].blocked /\ checks[k].pc = "done" /\ ~checks[k].probed

\* C19: a clipboard image whose first 100 characters equal the fingerprint
\* recorded before it is not handed to the processor and not delivered; one
\* with another fingerprint is handed to the processor and, when that
\* succeeds, delivered through onImagePaste exactly once.
FirstHundred(text) == <<text[1]>>
C19_FingerprintSuppressesRepeat ==
    \A k \in Checks :
        checks[k].compared =>
            IF FirstHundred(checks[k].text) = checks[k].before
                THEN /\ checks[k].pc = "done"
                     /\ ~checks[k].handed
                     /\ checks[k].delivered = 0
                ELSE /\ lastClipboardImageHash # NoHash
                     /\ checks[k].pc \in {"process", "done"} => checks[k].handed
                     /\ checks[k].pc = "done" =>
                           checks[k].delivered =
                               (IF checks[k].processed.tag = "image" THEN 1 ELSE 0)
                     /\ checks[k].pc # "done" => checks[k].delivered = 0
\* C19 witness: an image was delivered, another image with the same first
\* 100 characters was then skipped, and a third with a new fingerprint was
\* delivered.
C19_Witness ==
    /\ \A k \in 1..3 : checks[k].pc = "done" /\ checks[k].compared
    /\ checks[1].text # checks[2].text
    /\ FirstHundred(checks[1].text) = FirstHundred(checks[2].text)
    /\ checks[1].delivered = 1
    /\ checks[2].before = FirstHundred(checks[2].text) /\ ~checks[2].handed
    /\ checks[3].before # FirstHundred(checks[3].text)
    /\ checks[3].delivered = 1

\* C20: extractBase64Data returns everything after the first comma of its
\* input, later commas included, and the whole input when it has no comma.
\* The code returns the piece between the first and the second comma (Spec).
AfterFirstComma(s) ==
    CASE s.kind = "data" -> Str("raw", "", s.segs, s.w, s.h)
      [] s.kind = "bare" -> Str("raw", "", <<0>>, 0, 0)
      [] s.kind = "raw" /\ Len(s.segs) > 1 -> Str("raw", "", Tail(s.segs), s.w, s.h)
      [] OTHER -> s
C20_ExtractAfterFirstComma ==
    /\ StrLen(extractBase64Data(subject)) = StrLen(AfterFirstComma(subject))
    /\ (call.fn = "processImageForAttachment" /\ platform # "web"
           /\ outcome.tag = "image") =>
          IsCeil(outcome.fileSize, 3 * StrLen(AfterFirstComma(call.arg)), 4)

\* C16: processAssets works through the selection in order, one asset at a
\* time; a failing asset costs one onError call and is skipped, the others
\* are still processed, and the list returned holds the assets that
\* succeeded, in selection order (SpecPicker).
AssetLoops == {"processAssetsNative", "processAssetsInline"}
\* The record was made from this asset.
FromAsset(item, asset) ==
    /\ item.width = asset.width /\ item.height = asset.height
    /\ item.fileName = asset.fileName
\* items and msgs account for the assets one by one, in order.
RECURSIVE Accounted(_, _, _)
Accounted(assets, items, msgs) ==
    IF assets = <<>>
        THEN items = <<>> /\ msgs = <<>>
        ELSE \/ /\ items # <<>>
                /\ FromAsset(Head(items), Head(assets))
                /\ Accounted(Tail(assets), Tail(items), msgs)
             \/ /\ msgs # <<>>
                /\ Accounted(Tail(assets), items, Tail(msgs))
C16_SequentialPerAssetReporting ==
    call.fn \in AssetLoops =>
        LET done == Len(selected) - Len(pending)
        IN  /\ pending = SubSeq(selected, done + 1, Len(selected))
            /\ Accounted(SubSeq(selected, 1, done), results, reported)
            /\ call.running =>
                  /\ pending # <<>>
                  /\ io.uri = Head(pending).uri
                  /\ \A i \in 1..Len(effects) : effects[i].op = "manipulate"
            /\ ~call.running =>
                  /\ pending = <<>>
                  /\ outcome = ListResult(results)
\* C16 witness: of two different assets the first failed and was reported,
\* the second was processed all the same and is the list returned.
C16_Witness ==
    /\ call.fn \in AssetLoops /\ ~call.running
    /\ Len(selected) = 2
    /\ selected[1].width # selected[2].width
    /\ Len(reported) = 1
    /\ outcome.tag = "list" /\ Len(outcome.items) = 1
    /\ FromAsset(outcome.items[1], selected[2])

\* C21: extractMimeType returns the type of a leading data:<type>; prefix,
\* and image/png for every input without one (no data: prefix, or an empty
\* type); the processor names and records the type so read.
DeclaredOrDefault(s) ==
    IF s.kind = "data" /\ Len(s.mime) > 0 THEN s.mime ELSE "image/png"
C21_MimeTypeOrDefault ==
    /\ extractMimeType(subject) = DeclaredOrDefault(subject)
    /\ (call.fn = "processImageForAttachment" /\ ~call.running) =>
          /\ (outcome.tag = "image" /\ platform # "web") =>
                outcome.mimeType = DeclaredOrDefault(call.arg)
          /\ (outcome.tag = "error"
                 /\ outcome.error.kind = "Unsupported image type") =>
                outcome.error.mime = DeclaredOrDefault(call.arg)
\* C21 witness: a string without a data: prefix was recorded as image/png.
C21_Witness ==
    /\ call.fn = "processImageForAttachment" /\ ~call.running
    /\ call.arg.kind \in {"raw", "file"}
    /\ outcome.tag = "image" /\ outcome.mimeType = "image/png"

\* C22: isSupportedImageType is true for image/png, image/jpeg, image/gif
\* and image/webp and false for every other string, letter case included:
\* the web processor refuses exactly the inputs of another type.
FourTypes == {"image/png", "image/jpeg", "image/gif", "image/webp"}
C22_ExactlyFourTypes ==
    /\ isSupportedImageType(DeclaredOrDefault(subject))
          <=> DeclaredOrDefault(subject) \in FourTypes
    /\ (call.fn = "processImageForAttachment" /\ ~call.running) =>
          ((outcome.tag = "error" /\ outcome.error.kind = "Unsupported image type")
              <=> DeclaredOrDefault(call.arg) \notin FourTypes)
\* C22 witness: image/PNG was refused.
C22_Witness ==
    /\ call.fn = "processImageForAttachment" /\ ~call.running
    /\ call.arg.kind = "data" /\ call.arg.mime = "image/PNG"
    /\ outcome = ErrorResult(UnsupportedMsg("image/PNG"))

\* C23: isValidImageSize is true up to MAX_FILE_SIZE = 1048576, the
\* boundary included, and false from 1048577 on: off the web the processor
\* accepts a supported input exactly when its estimate is at most 1048576.
C23_SizeBoundaryInclusive ==
    /\ \A size \in {0, 1, 1048575, 1048576} : isValidImageSize(size)
    /\ \A size \in {1048577, 1048578, 2 * 1048576} : ~isValidImageSize(size)
    /\ (call.fn = "processImageForAttachment" /\ ~call.running
           /\ platform # "web"
           /\ DeclaredOrDefault(call.arg) \in FourTypes) =>
          LET size == EstimateSize(extractBase64Data(call.arg))
          IN  /\ size <= 1048576 => outcome.tag = "image" /\ outcome.fileSize = size
              /\ size >= 1048577 => outcome.tag = "error"
\* C23 witness: an input of exactly 1048576 estimated bytes was accepted.
C23_Witness ==
    /\ call.fn = "processImageForAttachment" /\ ~call.running
    /\ platform # "web"
    /\ outcome.tag = "image" /\ outcome.fileSize = 1048576

\* C24: once the acquisition calls of a hook have all resolved, whatever
\* their outcomes (denied, canceled, no assets, every asset failed, success,
\* thrown error), isLoading is false; a call that raised the flag lowered it
\* as it left.
AllResolved == \A c \in Calls : acq[c].pc \in {"idle", "done"}
C24_LoadingFalseWhenIdle ==
    /\ AllResolved => isLoading = FALSE
    /\ \A c \in Calls :
          (acq[c].pc = "done" /\ acq[c].raised) => acq[c].flagAtEnd = FALSE
\* C24 witness: a call that delivered images and a call whose launcher
\* threw have both resolved.
C24_Witness ==
    /\ AllResolved /\ isLoading = FALSE
    /\ \E c, b \in Calls :
          /\ acq[c].pc = "done" /\ acq[c].picked # <<>> /\ acq[c].raised
          /\ acq[b].pc = "done" /\ acq[b].failed = LaunchError /\ acq[b].raised

\* C25: isLoading is true whenever some call of the hook is between its
\* launcher call and its completion.  The flag is a boolean each call
\* lowers on its own: the first of two overlapping calls to finish lowers
\* it under the other (SpecHook).
Busy(a) == a.pc \in {"launch", "process", "read"}
C25_LoadingWhileAnyCallBusy ==
    (\E c \in Calls : Busy(acq[c])) => isLoading

\* C26: a call invokes onImagesPicked at most once, after its last asset
\* was processed, with a non-empty list: the list pickFromGallery returns,
\* the one image takePhoto returns; never when every asset failed.
C26_PickedOnceWithReturnValue ==
    \A c \in Calls :
        LET a == acq[c]
        IN  /\ Len(a.picked) <= 1
            /\ a.picked # <<>> =>
                  /\ a.pc = "done" /\ a.pending = <<>>
                  /\ Len(a.results) + Len(a.reported) = Len(a.launched.assets)
                  /\ a.picked[1] # <<>>
                  /\ IF a.fn = "pickFromGallery"
                         THEN a.ret = ListResult(a.picked[1])
                         ELSE a.picked[1] = <<a.ret>> /\ a.ret.tag = "image"
            /\ (a.pc = "done" /\ a.results = <<>>) => a.picked = <<>>
\* C26 witness: a gallery call delivered the list it returned although one
\* asset had failed, and a camera call delivered its one image.
C26_Witness ==
    \E c, b \in Calls :
        /\ acq[c].fn = "pickFromGallery" /\ acq[c].pc = "done"
        /\ acq[c].reported # <<>>
        /\ acq[c].ret.tag = "list" /\ acq[c].picked = <<acq[c].ret.items>>
        /\ acq[b].fn = "takePhoto" /\ acq[b].pc = "done"
        /\ acq[b].ret.tag = "image" /\ acq[b].picked = <<<<acq[b].ret>>>>

\* C27: the clipboard guard is released on every path: once set, it becomes
\* false again, whether the check found no image, no data, the image seen
\* last, an exception, or deferred the processing and that succeeded,
\* returned an error or threw (SpecClipboardLive).
C27_GuardReleased == isCheckingClipboard ~> ~isCheckingClipboard
\* C27 witness: the guard is free after a check whose callback threw, a
\* check that saw the same image again and a check that found no image.
C27_Witness ==
    /\ ~isCheckingClipboard
    /\ \A k \in 1..3 : checks[k].pc = "done" /\ checks[k].probed
    /\ checks[1].handed /\ checks[1].threw
    /\ checks[2].compared /\ ~checks[2].handed
    /\ ~checks[3].fetched

\* C28: the fingerprint is recorded before the processing starts and stays
\* whatever its outcome, so in a run of consecutive checks that see the same
\* first 100 characters onImagePaste is called at most once, and no check
\* after the first of the run is handed to the processor, whether or not the
\* first one's processing failed.
SameRun(k, j) ==
    /\ k < j /\ checks[k].compared /\ checks[j].compared
    /\ \A i \in k..j :
          checks[i].compared =>
              FirstHundred(checks[i].text) = FirstHundred(checks[k].text)
C28_FingerprintKept ==
    /\ \A k \in Checks :
          checks[k].pc \in {"deferred", "process"} =>
              lastClipboardImageHash = FirstHundred(checks[k].text)
    /\ \A k \in Checks :
          (checks[k].compared /\ \A j \in Checks : j > k => ~checks[j].compared) =>
              lastClipboardImageHash = FirstHundred(checks[k].text)
    /\ \A k \in Checks : checks[k].delivered <= 1
    /\ \A k, j \in Checks :
          SameRun(k, j) =>
              /\ ~checks[j].handed
              /\ checks[j].delivered = 0
              /\ checks[k].delivered + checks[j].delivered <= 1
\* C28 witness: the processing of an image failed, and the next check, which
\* saw a decodable image with the same first 100 characters, left it alone.
C28_Witness ==
    /\ checks[1].pc = "done" /\ checks[1].handed
    /\ checks[1].processed.tag = "error"
    /\ checks[2].pc = "done" /\ checks[2].compared /\ ~checks[2].handed
    /\ checks[2].text # checks[1].text
    /\ \E img \in ClipImages : img.text = checks[2].text /\ img.w > 0
    /\ lastClipboardImageHash = FirstHundred(checks[1].text)

\* C29: a record returned by processImageForAttachmentNative has mimeType
\* image/png or image/jpeg, and image/png exactly when its input is a data
\* URL that declares image/png or a file URI that ends in .png in any letter
\* case.  A data URL that declares no type gets a PNG record (Spec).
DeclaresPng(uri) ==
    \/ uri.kind = "data" /\ uri.mime = "image/png"
    \/ uri.kind = "file" /\ LowerExt(uri.mime) = "png"
C30_TargetAtLeastOnePixel ==
    (call.fn # "none" /\ call.arg.w >= 1 /\ call.arg.h >= 1
        /\ call.maxDimension >= 1) =>
        \A i \in 1..Len(effects) :
            effects[i].actions # <<>> =>
                /\ effects[i].actions[1][1] >= 1
                /\ effects[i].actions[1][2] >= 1

\* C31: the tracked selection of the text input is the selection reported
\* last through onSelectionChange (the initial one before any report): a
\* text change tracks and reports (len, len), setTextAndSelection tracks and
\* reports the selection it is given and calls nothing when the input ref is
\* null, and a native selection event equal to the tracked selection calls
\* neither onSelectionChange nor onStateChange (SpecInput).
ReportedBy(ev, selection) ==
    \E i \in 1..Len(ev.notified) :
        /\ ev.notified[i].cb = "onSelectionChange"
        /\ ev.notified[i].selection = selection
C31_TrackedSelectionIsReported ==
    /\ onSelectionChange =>
          selectionRef = (IF lastSelection = NoSelection THEN Selection(0, 0)
                          ELSE lastSelection)
    /\ handled.op = "textChange" =>
          /\ selectionRef = Selection(Len(handled.text), Len(handled.text))
          /\ onSelectionChange => ReportedBy(handled, selectionRef)
    /\ handled.op = "setTextAndSelection" =>
          IF handled.attached
              THEN /\ selectionRef = handled.selection
                   /\ onSelectionChange => ReportedBy(handled, selectionRef)
              ELSE /\ handled.notified = <<>>
                   /\ selectionRef = handled.before
    /\ (handled.op = "selectionChange" /\ handled.selection = handled.before) =>
          /\ handled.notified = <<>>
          /\ selectionRef = handled.before
\* C31 witness: with both callbacks given, a native selection event repeated
\* the selection 0..1 that was tracked and reported, and nothing was called.
C31_Witness ==
    /\ onSelectionChange /\ onStateChange
    /\ handled.op = "selectionChange"
    /\ handled.selection = Selection(0, 1)
    /\ handled.before = Selection(0, 1)
    /\ lastSelection = Selection(0, 1)
    /\ selectionRef = Selection(0, 1)
    /\ handled.notified = <<>>

\* C32: toClaudeImageContent keeps the record's type and strips the data-URL
\* prefix: for a record whose base64 is 'data:<mime>;base64,' + p the block
\* has media_type equal to the record's mimeType and data equal to p, and the
\* record is as it was (SpecContent).
PayloadOf(base64) == Str("raw", "", base64.segs, base64.w, base64.h)
====
